---- MODULE Spec2Model ----
(***************************************************************************)
(* Model of the product catalog of InventoryTracker:                       *)
(*   inventory/inventory_manager.py  InventoryManager                      *)
(*   inventory/database.py           DBProduct (table "products")          *)
(*   inventory/api_client.py         UnimallAPIClient.sync_inventory       *)
(*                                                                         *)
(* A name is a sequence of characters, so that str.strip() is computed.    *)
(* A price is an integer number of price units (the Float column holds     *)
(* what it is given; rounding of floating point sums is not modelled).     *)
(* The table "products" is the sequence of its rows in insertion order.    *)
(*                                                                         *)
(*   Spec      the catalog calls, each running undisturbed                 *)
(*   SpecSync  Spec and sync_inventory                                     *)
(*   SpecConc  two callers inside add_product, between the existence check *)
(*             and the commit, and remove_product                          *)
(*   SpecRemote  sync_inventory on a catalog of the remote names           *)
(*   SpecTxn   two callers, every write split into query and commit, and   *)
(*             the readers in between                                      *)
(*                                                                         *)
(* and of the user directory and the Product class:                        *)
(*   inventory/user_manager.py       UserManager                           *)
(*   inventory/user.py               User, UserRole                        *)
(*   inventory/database.py           DBUser (table "users")                *)
(*   inventory/product.py            Product                               *)
(*                                                                         *)
(*   SpecDir     the directory calls on a new database                     *)
(*   SpecDirDb   the directory calls on a database with an inactive user   *)
(*   SpecProduct construction and update of one Product                    *)
(*                                                                         *)
(* and of the browser session of streamlit_app.py:                         *)
(*   SpecSession both managers with the storage sessions they open         *)
(*   SpecNotify  the notification queue                                    *)
(*   SpecApp     the pages: login, register, logout, administrator forms   *)
(***************************************************************************)
EXTENDS Integers, Sequences, FiniteSets, TLC

\* ------------------------------------------------------------------ bounds
MaxPrice == 1
MaxQty == 1
MaxRows == 2
MaxRemote == 2
MaxManagers == 2
MaxUsers == 3
MaxClock == 1
MaxNotes == 2

\* the prices and quantities callers pass: negative, zero, positive
Prices == {0 - 1, 0, MaxPrice}
Quantities == {0 - 1, 0, MaxQty}

Whitespace == {" "}

\* the names callers pass: empty, blank, plain, padded on both sides
RawNames ==
  { <<>>, <<" ">>, <<"a">>, <<" ", "a", " ">>, <<"b">> }

Procs == {1, 2}

VARIABLES
  products,   \* rows of table "products", in insertion order
  last,       \* the last completed call: operation, outcome, returned value
  pc,         \* per caller: position inside a running add_product
  pending,    \* per caller: the arguments of the running add_product
  stale,      \* the callers whose row was deleted after they queried it
  users,      \* rows of table "users", in insertion order
  managers,   \* the number of UserManager objects constructed so far
  product_obj,   \* a Product object, None before it is constructed
  sessions,      \* the number of storage sessions that are open
  opened,        \* whether the call that started last opened a session
  session_state, \* st.session_state of the browser session
  clock          \* datetime.now(), in seconds

vars ==
  <<products, last, pc, pending, stale, users, managers, product_obj,
    sessions, opened, session_state, clock>>

\* ------------------------------------------------------------- str.strip
RECURSIVE lstrip(_)
lstrip(s) ==
  IF s # <<>> /\ Head(s) \in Whitespace THEN lstrip(Tail(s)) ELSE s

RECURSIVE rstrip(_)
rstrip(s) ==
  IF s # <<>> /\ s[Len(s)] \in Whitespace
    THEN rstrip(SubSeq(s, 1, Len(s) - 1))
    ELSE s

strip(s) == rstrip(lstrip(s))

\* ------------------------------------------------------------ the table
DBProduct(name, price, quantity) ==
  [name |-> name, price |-> price, quantity |-> quantity]

\* db.query(DBProduct).filter(DBProduct.name == nm).first(): the index of
\* the first matching row, 0 when there is none
query_first(tbl, nm) ==
  LET hits == {i \in 1..Len(tbl) : tbl[i].name = nm}
  IN IF hits = {} THEN 0
     ELSE CHOOSE i \in hits : \A j \in hits : i <= j

\* as db_add_commit, on a column "name" that is not declared unique
db_add_commit_not_unique(tbl, row) ==
  [tbl |-> Append(tbl, row), res |-> "ok"]

\* as db_add_commit, committing the row before its quantity is set
db_add_commit_bare(tbl, row) ==
  IF \E i \in 1..Len(tbl) : tbl[i].name = row.name
    THEN [tbl |-> tbl, res |-> "IntegrityError"]
    ELSE [tbl |-> Append(tbl, [row EXCEPT !.quantity = 0]), res |-> "ok"]

\* db.add(row); db.commit(): the column "name" is declared unique, so the
\* INSERT of a second row of the same name fails at commit
db_add_commit(tbl, row) ==
  IF \E i \in 1..Len(tbl) : tbl[i].name = row.name
    THEN [tbl |-> tbl, res |-> "IntegrityError"]
    ELSE [tbl |-> Append(tbl, row), res |-> "ok"]

\* as db_delete_commit, deleting the newest row instead of the row found
db_delete_commit_newest(tbl, i) ==
  [j \in 1..(Len(tbl) - 1) |-> tbl[j]]

\* db.delete(row); db.commit()
db_delete_commit(tbl, i) ==
  [j \in 1..(Len(tbl) - 1) |-> IF j < i THEN tbl[j] ELSE tbl[j + 1]]

\* ------------------------------------------------------ InventoryManager
None == [none |-> TRUE]

\* as add_product_existing, comparing with the name as given
add_product_existing_raw(tbl, name) == query_first(tbl, name) # 0

\* line 37: the existence check of add_product
add_product_existing(tbl, name) == query_first(tbl, strip(name)) # 0

\* as add_product_commit, storing the name as given
add_product_commit_raw(tbl, name, price, quantity) ==
  db_add_commit(tbl, DBProduct(name, price, quantity))

\* lines 42-48: the row add_product creates, added and committed
add_product_commit(tbl, name, price, quantity) ==
  db_add_commit(tbl, DBProduct(strip(name), price, quantity))

\* calls: the Product(...) constructions the call performs
add_product(tbl, name, price, quantity) ==
  IF add_product_existing(tbl, name)
    THEN [tbl |-> tbl, res |-> "ValueError", calls |-> <<>>]
    ELSE LET c == add_product_commit(tbl, name, price, quantity)
         IN [tbl |-> c.tbl, res |-> c.res, calls |-> <<>>]

remove_product(tbl, name) ==
  LET i == query_first(tbl, strip(name))
  IN IF i = 0
       THEN [tbl |-> tbl, res |-> "KeyError"]
       ELSE [tbl |-> db_delete_commit(tbl, i), res |-> "ok"]

\* as update_quantity, looking the name up before it checks the quantity
update_quantity_lookup_first(tbl, name, new_quantity) ==
  LET i == query_first(tbl, strip(name))
  IN IF i = 0
       THEN [tbl |-> tbl, res |-> "KeyError"]
       ELSE IF new_quantity \notin Int \/ new_quantity < 0
         THEN [tbl |-> tbl, res |-> "ValueError"]
         ELSE [tbl |-> [tbl EXCEPT ![i].quantity = new_quantity],
               res |-> "ok"]

\* as update_quantity, with an UPDATE that has no WHERE clause
update_quantity_all(tbl, name, new_quantity) ==
  IF new_quantity \notin Int \/ new_quantity < 0
    THEN [tbl |-> tbl, res |-> "ValueError"]
    ELSE LET i == query_first(tbl, strip(name))
         IN IF i = 0
              THEN [tbl |-> tbl, res |-> "KeyError"]
              ELSE [tbl |-> [j \in 1..Len(tbl) |->
                               [tbl[j] EXCEPT !.quantity = new_quantity]],
                    res |-> "ok"]

\* as update_quantity, without the check of the quantity
update_quantity_unchecked(tbl, name, new_quantity) ==
  LET i == query_first(tbl, strip(name))
  IN IF i = 0
       THEN [tbl |-> tbl, res |-> "KeyError"]
       ELSE [tbl |-> [tbl EXCEPT ![i].quantity = new_quantity],
             res |-> "ok"]

\* as update_quantity, creating the record when the name is not stored
update_quantity_upsert(tbl, name, new_quantity) ==
  IF new_quantity \notin Int \/ new_quantity < 0
    THEN [tbl |-> tbl, res |-> "ValueError"]
    ELSE LET i == query_first(tbl, strip(name))
         IN IF i = 0
              THEN [tbl |-> Append(tbl, DBProduct(strip(name), 0,
                                                  new_quantity)),
                    res |-> "ok"]
              ELSE [tbl |-> [tbl EXCEPT ![i].quantity = new_quantity],
                    res |-> "ok"]

update_quantity(tbl, name, new_quantity) ==
  IF new_quantity \notin Int \/ new_quantity < 0
    THEN [tbl |-> tbl, res |-> "ValueError"]
    ELSE LET i == query_first(tbl, strip(name))
         IN IF i = 0
              THEN [tbl |-> tbl, res |-> "KeyError"]
              ELSE [tbl |-> [tbl EXCEPT ![i].quantity = new_quantity],
                    res |-> "ok"]

product_dict(row) ==
  [name |-> row.name, price |-> row.price, quantity |-> row.quantity,
   total_value |-> row.price * row.quantity]

retrieve_product_info(tbl, name) ==
  LET i == query_first(tbl, strip(name))
  IN IF i = 0 THEN None ELSE product_dict(tbl[i])

RECURSIVE sum(_)
sum(s) == IF s = <<>> THEN 0 ELSE Head(s) + sum(Tail(s))

\* as get_total_inventory_value, summing the prices only
get_total_inventory_value_prices(tbl) ==
  sum([i \in 1..Len(tbl) |-> tbl[i].price])

get_total_inventory_value(tbl) ==
  sum([i \in 1..Len(tbl) |-> tbl[i].price * tbl[i].quantity])

get_all_products(tbl) == [i \in 1..Len(tbl) |-> product_dict(tbl[i])]

\* ------------------------------------------------------ sync_inventory
RemoteIds == {"1", "2"}

\* the remote catalogue, as the id -> name mapping built from it; an id the
\* catalogue does not list gets the default name
CatalogMaps ==
  { [i \in RemoteIds |-> IF i = "1" THEN <<"a">> ELSE <<"b", " ">>],
    [i \in RemoteIds |-> <<" ", "a">>] }

RemotePrices == {MaxPrice}

RemoteItems == [id : RemoteIds, price : RemotePrices, quantity : Quantities]

RemoteLists ==
  UNION { [1..k -> RemoteItems] : k \in 0..MaxRemote }

default_name(id) == <<"P", "r", "o", "d", "u", "c", "t", " ", id>>

catalog_name(catalog_map, id) ==
  IF id \in DOMAIN catalog_map THEN catalog_map[id] ELSE default_name(id)

\* as sync_item, leaving a product that exists as it is
sync_item_skip_existing(tbl, product, catalog_map) ==
  LET name == catalog_name(catalog_map, product.id)
      a == add_product(tbl, name, product.price, product.quantity)
  IN IF a.res = "ValueError"
       THEN [tbl |-> tbl, res |-> "ok"]
       ELSE [tbl |-> a.tbl, res |-> a.res]

\* one round of the loop: add_product, and on ValueError update_quantity
sync_item(tbl, product, catalog_map) ==
  LET name == catalog_name(catalog_map, product.id)
      a == add_product(tbl, name, product.price, product.quantity)
  IN IF a.res = "ValueError"
       THEN update_quantity(tbl, name, product.quantity)
       ELSE [tbl |-> a.tbl, res |-> a.res]

RECURSIVE sync_loop(_, _, _)
sync_loop(tbl, products_data, catalog_map) ==
  IF products_data = <<>>
    THEN [tbl |-> tbl, res |-> "ok"]
    ELSE LET r == sync_item(tbl, Head(products_data), catalog_map)
         IN IF r.res # "ok"
              THEN r
              ELSE sync_loop(r.tbl, Tail(products_data), catalog_map)

\* as sync_inventory, undoing the items applied when one of them fails
sync_inventory_rollback(tbl, fail_q, fail_c, products_data, catalog_map) ==
  IF fail_q \/ fail_c
    THEN [tbl |-> tbl, res |-> "ConnectionError"]
    ELSE LET r == sync_loop(tbl, products_data, catalog_map)
         IN IF r.res = "ok" THEN r ELSE [tbl |-> tbl, res |-> r.res]

\* as sync_inventory, fetching the catalogue after the products were applied
sync_inventory_late(tbl, fail_q, fail_c, products_data, catalog_map) ==
  IF fail_q
    THEN [tbl |-> tbl, res |-> "ConnectionError"]
    ELSE IF fail_c
      THEN [tbl |-> sync_loop(tbl, products_data, catalog_map).tbl,
            res |-> "ConnectionError"]
      ELSE sync_loop(tbl, products_data, catalog_map)

\* fail_q, fail_c: the first, the second fetch raises a RequestException
sync_inventory(tbl, fail_q, fail_c, products_data, catalog_map) ==
  IF fail_q \/ fail_c
    THEN [tbl |-> tbl, res |-> "ConnectionError"]
    ELSE sync_loop(tbl, products_data, catalog_map)

\* ------------------------------------------------------------------ state
MAX_NOTIFICATIONS == 50

NoCall == [op |-> "none", res |-> "ok", calls |-> <<>>, value |-> None]

Call(op, res, value) ==
  [op |-> op, res |-> res, calls |-> <<>>, value |-> value]

NoArgs == [name |-> <<>>, price |-> 0, quantity |-> 0]

\* st.session_state before init_session_state has run
NoSession == [started |-> FALSE, current_user |-> None, notifications |-> <<>>]

Init ==
  /\ products = <<>>
  /\ last = NoCall
  /\ pc = [p \in Procs |-> "idle"]
  /\ pending = [p \in Procs |-> NoArgs]
  /\ stale = {}
  /\ users = <<>>
  /\ managers = 0
  /\ product_obj = None
  /\ sessions = 0
  /\ opened = FALSE
  /\ session_state = NoSession
  /\ clock = 0

\* ------------------------------------------------------------- get_db
SessionLocal(n) == n + 1

db_close(n) == n - 1

\* as get_db_exit, closing the session only when the block ends normally
get_db_exit_no_finally(n, res) == IF res = "ok" THEN db_close(n) ELSE n

\* leaving the with-block of get_db with outcome res: the finally clause
\* closes the session
get_db_exit(n, res) == db_close(n)

\* a whole with-block of get_db that ends with outcome res
get_db(n, res) == get_db_exit(SessionLocal(n), res)

\* the call runs its with-block to the end
WithDb(res) ==
  /\ sessions' = get_db(sessions, res)
  /\ opened' = TRUE

\* the call ends before its with-block
NoDb ==
  /\ sessions' = sessions
  /\ opened' = FALSE

\* the call enters its with-block
Acquire ==
  /\ sessions' = SessionLocal(sessions)
  /\ opened' = TRUE

\* the call leaves its with-block with outcome res
Release(res) ==
  /\ sessions' = get_db_exit(sessions, res)
  /\ UNCHANGED opened

\* sync_inventory: every manager call it makes runs its with-block to the
\* end; it makes none when a fetch fails or the remote list is empty
SyncDb(fq, fc, data) ==
  /\ sessions' = sessions
  /\ opened' = (~fq /\ ~fc /\ data # <<>>)

\* ---------------------------------------------- calls that run undisturbed
AddProduct(n, p, q) ==
  \E r \in {add_product(products, n, p, q)} :
     /\ Len(r.tbl) <= MaxRows
     /\ products' = r.tbl
     /\ last' = [Call("add_product", r.res, None) EXCEPT !.calls = r.calls]
     /\ WithDb(r.res)
     /\ UNCHANGED <<pc, pending, stale, users, managers, product_obj,
                    session_state, clock>>

RemoveProduct(n) ==
  \E r \in {remove_product(products, n)} :
     /\ products' = r.tbl
     /\ last' = Call("remove_product", r.res, None)
     /\ WithDb(r.res)
     /\ UNCHANGED <<pc, pending, stale, users, managers, product_obj,
                    session_state, clock>>

UpdateQuantity(n, q) ==
  \E r \in {update_quantity(products, n, q)} :
     /\ products' = r.tbl
     /\ last' = Call("update_quantity", r.res, None)
     /\ IF q < 0 THEN NoDb ELSE WithDb(r.res)
     /\ UNCHANGED <<pc, pending, stale, users, managers, product_obj,
                    session_state, clock>>

RetrieveProductInfo(n) ==
  /\ last' = Call("retrieve_product_info", "ok",
                  retrieve_product_info(products, n))
  /\ WithDb("ok")
  /\ UNCHANGED <<products, pc, pending, stale, users, managers, product_obj,
                 session_state, clock>>

GetTotalInventoryValue ==
  /\ last' = Call("get_total_inventory_value", "ok",
                  get_total_inventory_value(products))
  /\ WithDb("ok")
  /\ UNCHANGED <<products, pc, pending, stale, users, managers, product_obj,
                 session_state, clock>>

GetAllProducts ==
  /\ last' = Call("get_all_products", "ok", get_all_products(products))
  /\ WithDb("ok")
  /\ UNCHANGED <<products, pc, pending, stale, users, managers, product_obj,
                 session_state, clock>>

SyncInventory(fq, fc, data, cmap) ==
  \E r \in {sync_inventory(products, fq, fc, data, cmap)} :
     /\ Len(r.tbl) <= MaxRows
     /\ products' = r.tbl
     /\ last' = Call("sync_inventory", r.res, None)
     /\ SyncDb(fq, fc, data)
     /\ UNCHANGED <<pc, pending, stale, users, managers, product_obj,
                    session_state, clock>>

Next ==
  \/ \E n \in RawNames, p \in Prices, q \in Quantities : AddProduct(n, p, q)
  \/ \E n \in RawNames : RemoveProduct(n)
  \/ \E n \in RawNames, q \in Quantities : UpdateQuantity(n, q)
  \/ \E n \in RawNames : RetrieveProductInfo(n)
  \/ GetTotalInventoryValue
  \/ GetAllProducts

Spec == Init /\ [][Next]_vars

\* ------------------------------------- the catalog with the sync client
NextSync ==
  \/ Next
  \/ \E data \in RemoteLists, cmap \in CatalogMaps :
        SyncInventory(FALSE, FALSE, data, cmap)
  \/ \E fq \in BOOLEAN, fc \in BOOLEAN, cmap \in CatalogMaps :
        (fq \/ fc) /\ SyncInventory(fq, fc, <<>>, cmap)

SpecSync == Init /\ [][NextSync]_vars

\* --------------------- the sync client on a catalog of the remote names
SeedNames == { <<"a">>, <<"b">> }

NextRemote ==
  \/ \E data \in RemoteLists, cmap \in CatalogMaps :
        SyncInventory(FALSE, FALSE, data, cmap)
  \/ \E fq \in BOOLEAN, fc \in BOOLEAN, cmap \in CatalogMaps :
        (fq \/ fc) /\ SyncInventory(fq, fc, <<>>, cmap)
  \/ \E n \in SeedNames, p \in Prices, q \in Quantities : AddProduct(n, p, q)
  \/ \E n \in SeedNames : RemoveProduct(n)

SpecRemote == Init /\ [][NextRemote]_vars

\* ------------------------------------- two callers inside add_product
\* what the two callers add: the same name padded and plain, another name
ConcNames == { <<"a">>, <<" ", "a", " ">>, <<"b">> }
ConcPrices == {0, MaxPrice}
ConcQuantities == {MaxQty}

Running == {p \in Procs : pc[p] = "commit"}

\* the caller runs the existence check (line 37): the call ends with
\* ValueError, or goes on to the commit
AddBegin(p, n, pr, q) ==
  /\ pc[p] = "idle"
  /\ Len(products) + Cardinality(Running) < MaxRows
  /\ IF add_product_existing(products, n)
       THEN /\ last' = Call("add_product", "ValueError", None)
            /\ UNCHANGED <<pc, pending>>
            /\ WithDb("ValueError")
       ELSE /\ pc' = [pc EXCEPT ![p] = "commit"]
            /\ pending' = [pending EXCEPT
                 ![p] = [name |-> n, price |-> pr, quantity |-> q]]
            /\ UNCHANGED last
            /\ Acquire
  /\ UNCHANGED <<products, stale, users, managers, product_obj,
                 session_state, clock>>

\* the caller runs db.add and db.commit (lines 42-48)
AddCommit(p) ==
  /\ pc[p] = "commit"
  /\ \E c \in {add_product_commit(products, pending[p].name,
                                  pending[p].price, pending[p].quantity)} :
       /\ products' = c.tbl
       /\ last' = Call("add_product", c.res, None)
  /\ pc' = [pc EXCEPT ![p] = "idle"]
  /\ pending' = [pending EXCEPT ![p] = NoArgs]
  /\ Release(last'.res)
  /\ UNCHANGED <<stale, users, managers, product_obj, session_state, clock>>

NextConc ==
  \/ \E p \in Procs, n \in ConcNames, pr \in ConcPrices,
        q \in ConcQuantities : AddBegin(p, n, pr, q)
  \/ \E p \in Procs : AddCommit(p)
  \/ \E n \in ConcNames : RemoveProduct(n)

SpecConc == Init /\ [][NextConc]_vars

\* ------------------------------- writers in two steps, readers in between
\* Every call opens its own session (get_db); the session does not
\* autocommit or autoflush, so what a writer changes reaches the table at
\* its db.commit() and not before.  A reader runs one query.
TxnQuantities == {0 - 1, 0}

\* product.quantity = new_quantity; db.commit(), for the row of name nm
db_update_commit(tbl, nm, new_quantity) ==
  [j \in 1..Len(tbl) |->
     IF j = query_first(tbl, nm)
       THEN [tbl[j] EXCEPT !.quantity = new_quantity]
       ELSE tbl[j]]

\* the callers that hold the row of name nm, other than p
Holders(p, nm) ==
  {o \in Procs \ {p} : /\ pc[o] \in {"update", "delete"}
                       /\ o \notin stale
                       /\ pending[o].name = nm}

\* update_quantity up to the query (lines 80-85): ValueError, KeyError, or
\* the caller holds the row it found
UpdateBegin(p, n, q) ==
  /\ pc[p] = "idle"
  /\ IF q < 0
       THEN /\ last' = Call("update_quantity", "ValueError", None)
            /\ UNCHANGED <<pc, pending>>
            /\ NoDb
       ELSE IF query_first(products, strip(n)) = 0
         THEN /\ last' = Call("update_quantity", "KeyError", None)
              /\ UNCHANGED <<pc, pending>>
              /\ WithDb("KeyError")
         ELSE /\ pc' = [pc EXCEPT ![p] = "update"]
              /\ pending' = [pending EXCEPT
                   ![p] = [name |-> strip(n), price |-> 0, quantity |-> q]]
              /\ UNCHANGED last
              /\ Acquire
  /\ UNCHANGED <<products, stale, users, managers, product_obj,
                 session_state, clock>>

\* update_quantity lines 87-89: the UPDATE of a row that was deleted in
\* between matches nothing
UpdateCommit(p) ==
  /\ pc[p] = "update"
  /\ IF p \in stale
       THEN /\ last' = Call("update_quantity", "StaleDataError", None)
            /\ UNCHANGED products
       ELSE /\ products' = db_update_commit(products, pending[p].name,
                                            pending[p].quantity)
            /\ last' = Call("update_quantity", "ok", None)
  /\ pc' = [pc EXCEPT ![p] = "idle"]
  /\ pending' = [pending EXCEPT ![p] = NoArgs]
  /\ stale' = stale \ {p}
  /\ Release(last'.res)
  /\ UNCHANGED <<users, managers, product_obj, session_state, clock>>

\* remove_product up to the query (lines 60-63)
RemoveBegin(p, n) ==
  /\ pc[p] = "idle"
  /\ IF query_first(products, strip(n)) = 0
       THEN /\ last' = Call("remove_product", "KeyError", None)
            /\ UNCHANGED <<pc, pending>>
            /\ WithDb("KeyError")
       ELSE /\ pc' = [pc EXCEPT ![p] = "delete"]
            /\ pending' = [pending EXCEPT
                 ![p] = [name |-> strip(n), price |-> 0, quantity |-> 0]]
            /\ UNCHANGED last
            /\ Acquire
  /\ UNCHANGED <<products, stale, users, managers, product_obj,
                 session_state, clock>>

\* remove_product lines 65-66: the DELETE of a row that was deleted in
\* between matches nothing
RemoveCommit(p) ==
  /\ pc[p] = "delete"
  /\ IF p \in stale
       THEN /\ UNCHANGED products
            /\ stale' = stale \ {p}
       ELSE /\ products' = db_delete_commit(products,
                             query_first(products, pending[p].name))
            /\ stale' = stale \cup Holders(p, pending[p].name)
  /\ last' = Call("remove_product", "ok", None)
  /\ pc' = [pc EXCEPT ![p] = "idle"]
  /\ pending' = [pending EXCEPT ![p] = NoArgs]
  /\ Release(last'.res)
  /\ UNCHANGED <<users, managers, product_obj, session_state, clock>>

NextTxn ==
  \/ \E p \in Procs, n \in ConcNames, pr \in ConcPrices,
        q \in ConcQuantities : AddBegin(p, n, pr, q)
  \/ \E p \in Procs : AddCommit(p)
  \/ \E p \in Procs, n \in ConcNames, q \in TxnQuantities :
        UpdateBegin(p, n, q)
  \/ \E p \in Procs : UpdateCommit(p)
  \/ \E p \in Procs, n \in ConcNames : RemoveBegin(p, n)
  \/ \E p \in Procs : RemoveCommit(p)
  \/ \E n \in ConcNames : RetrieveProductInfo(n)
  \/ GetTotalInventoryValue
  \/ GetAllProducts

SpecTxn == Init /\ [][NextTxn]_vars

\* ------------------------------------------------------- user directory
Usernames == {"admin", "u1", "u2"}
Passwords == {"admin123", "p1", "p2"}

\* the salts generate_password_hash may draw
Salts == {"s1", "s2"}

\* the members of enum UserRole, and UserRole.value
UserRoles == {"UserRole.ADMIN", "UserRole.PARTNER"}

role_value(role) == IF role = "UserRole.ADMIN" THEN "admin" ELSE "partner"

\* UserRole(value): the member of that value
UserRole(value) == CHOOSE role \in UserRoles : role_value(role) = value

\* werkzeug's salted one-way hash: the digest depends on salt and password
generate_password_hash(password, salt) ==
  [salt |-> salt, digest |-> <<salt, password>>]

check_password_hash(pwhash, password) ==
  pwhash.digest = <<pwhash.salt, password>>

DBUser(username, password_hash, role, is_active) ==
  [username |-> username, password_hash |-> password_hash, role |-> role,
   is_active |-> is_active]

User(username, password_hash, role, is_active) ==
  [username |-> username, password_hash |-> password_hash, role |-> role,
   is_active |-> is_active]

\* db.query(DBUser).filter(DBUser.username == username).first()
query_user(tbl, username) ==
  LET hits == {i \in 1..Len(tbl) : tbl[i].username = username}
  IN IF hits = {} THEN 0
     ELSE CHOOSE i \in hits : \A j \in hits : i <= j

\* db.add(row); db.commit() on table "users": username is declared unique
db_add_user_commit(tbl, row) ==
  IF \E i \in 1..Len(tbl) : tbl[i].username = row.username
    THEN [tbl |-> tbl, res |-> "IntegrityError"]
    ELSE [tbl |-> Append(tbl, row), res |-> "ok"]

\* as UserManager_init, writing a fresh admin account at every start
UserManager_init_reset(tbl, salt) ==
  [tbl |-> Append(SelectSeq(tbl, LAMBDA row : row.username # "admin"),
                  DBUser("admin", generate_password_hash("admin123", salt),
                         role_value("UserRole.ADMIN"), 1)),
   res |-> "ok"]

\* UserManager.__init__: the default admin account, unless there is one
UserManager_init(tbl, salt) ==
  IF query_user(tbl, "admin") # 0
    THEN [tbl |-> tbl, res |-> "ok"]
    ELSE db_add_user_commit(tbl,
           DBUser("admin", generate_password_hash("admin123", salt),
                  role_value("UserRole.ADMIN"), 1))

\* as register_user, without the check for an existing username
register_user_unchecked(tbl, username, password, role, salt) ==
  db_add_user_commit(tbl,
    DBUser(username, generate_password_hash(password, salt),
           role_value(role), 1))

\* as register_user, replacing the account of an existing username
register_user_overwrite(tbl, username, password, role, salt) ==
  LET i == query_user(tbl, username)
      row == DBUser(username, generate_password_hash(password, salt),
                    role_value(role), 1)
  IN IF i # 0
       THEN [tbl |-> [tbl EXCEPT ![i] = row], res |-> "ok"]
       ELSE db_add_user_commit(tbl, row)

register_user(tbl, username, password, role, salt) ==
  IF query_user(tbl, username) # 0
    THEN [tbl |-> tbl, res |-> "ValueError"]
    ELSE db_add_user_commit(tbl,
           DBUser(username, generate_password_hash(password, salt),
                  role_value(role), 1))

\* bool(db_user.is_active)
bool(n) == n # 0

\* as authenticate_user, without the comparison of the password
authenticate_user_any_password(tbl, username, password) ==
  LET i == query_user(tbl, username)
  IN IF i # 0
       THEN User(tbl[i].username, tbl[i].password_hash,
                 UserRole(tbl[i].role), bool(tbl[i].is_active))
       ELSE None

\* as authenticate_user, reporting an unknown username as an error
authenticate_user_unknown(tbl, username, password) ==
  LET i == query_user(tbl, username)
  IN IF i = 0 THEN [error |-> "KeyError"]
     ELSE IF check_password_hash(tbl[i].password_hash, password)
       THEN User(tbl[i].username, tbl[i].password_hash,
                 UserRole(tbl[i].role), bool(tbl[i].is_active))
       ELSE None

authenticate_user(tbl, username, password) ==
  LET i == query_user(tbl, username)
  IN IF i # 0 /\ check_password_hash(tbl[i].password_hash, password)
       THEN User(tbl[i].username, tbl[i].password_hash,
                 UserRole(tbl[i].role), bool(tbl[i].is_active))
       ELSE None

get_user(tbl, username) ==
  LET i == query_user(tbl, username)
  IN IF i # 0
       THEN User(tbl[i].username, tbl[i].password_hash,
                 UserRole(tbl[i].role), bool(tbl[i].is_active))
       ELSE None

\* the dictionary username -> public fields, as its set of entries
get_all_users(tbl) ==
  { [username |-> tbl[i].username, role |-> tbl[i].role,
     is_active |-> bool(tbl[i].is_active)] : i \in 1..Len(tbl) }

NewUserManager(salt) ==
  /\ managers < MaxManagers
  /\ \E r \in {UserManager_init(users, salt)} :
       /\ users' = r.tbl
       /\ last' = Call("UserManager", r.res, None)
  /\ managers' = managers + 1
  /\ WithDb(last'.res)
  /\ UNCHANGED <<products, pc, pending, stale, product_obj,
                 session_state, clock>>

RegisterUser(u, pw, role, salt) ==
  /\ managers >= 1
  /\ \E r \in {register_user(users, u, pw, role, salt)} :
       /\ Len(r.tbl) <= MaxUsers
       /\ users' = r.tbl
       /\ last' = Call("register_user", r.res, None)
  /\ WithDb(last'.res)
  /\ UNCHANGED <<products, pc, pending, stale, managers, product_obj,
                 session_state, clock>>

AuthenticateUser(u, pw) ==
  /\ managers >= 1
  /\ last' = Call("authenticate_user", "ok", authenticate_user(users, u, pw))
  /\ WithDb("ok")
  /\ UNCHANGED <<products, pc, pending, stale, users, managers, product_obj,
                 session_state, clock>>

GetUser(u) ==
  /\ managers >= 1
  /\ last' = Call("get_user", "ok", get_user(users, u))
  /\ WithDb("ok")
  /\ UNCHANGED <<products, pc, pending, stale, users, managers, product_obj,
                 session_state, clock>>

GetAllUsers ==
  /\ managers >= 1
  /\ last' = Call("get_all_users", "ok", get_all_users(users))
  /\ WithDb("ok")
  /\ UNCHANGED <<products, pc, pending, stale, users, managers, product_obj,
                 session_state, clock>>

NextDir ==
  \/ \E salt \in Salts : NewUserManager(salt)
  \/ \E u \in Usernames, pw \in Passwords, role \in UserRoles,
        salt \in Salts : RegisterUser(u, pw, role, salt)
  \/ \E u \in Usernames, pw \in Passwords : AuthenticateUser(u, pw)
  \/ \E u \in Usernames : GetUser(u)
  \/ GetAllUsers

\* the directory, starting on an empty table "users"
SpecDir == Init /\ [][NextDir]_vars

\* the directory, starting on a database in which an account was
\* deactivated (column is_active set to 0)
InitDb ==
  /\ products = <<>>
  /\ last = NoCall
  /\ pc = [p \in Procs |-> "idle"]
  /\ pending = [p \in Procs |-> NoArgs]
  /\ stale = {}
  /\ users = << DBUser("u1", generate_password_hash("p1", "s1"),
                       role_value("UserRole.PARTNER"), 0) >>
  /\ managers = 0
  /\ product_obj = None
  /\ sessions = 0
  /\ opened = FALSE
  /\ session_state = NoSession
  /\ clock = 0

SpecDirDb == InitDb /\ [][NextDir]_vars

\* ------------------------- both managers, the catalog writers in two steps
SessUsernames == {"u1"}

NextSession ==
  \/ NextTxn
  \/ NewUserManager("s1")
  \/ \E u \in SessUsernames : RegisterUser(u, "p1", "UserRole.PARTNER", "s1")
  \/ \E u \in SessUsernames : AuthenticateUser(u, "p1")
  \/ \E u \in SessUsernames : GetUser(u)
  \/ GetAllUsers

SpecSession == Init /\ [][NextSession]_vars

\* ------------------------------------------------------- class Product
\* a float is a number or not-a-number; every comparison with nan is false
Float(v) == [nan |-> FALSE, v |-> v]

NaN == [nan |-> TRUE, v |-> 0]

float_lt(x, n) == ~x.nan /\ x.v < n

float_mul(x, n) == IF x.nan THEN NaN ELSE Float(x.v * n)

ProductPrices == {Float(v) : v \in (0 - 1)..(MaxPrice + 1)} \cup {NaN}

ProductQuantities == (0 - 1)..(MaxQty + 1)

\* Product(name, price, quantity): the dataclass __init__ followed by
\* __post_init__
Product(name, price, quantity) ==
  IF strip(name) = <<>>
    THEN [res |-> "ValueError", obj |-> None]
    ELSE IF float_lt(price, 0)
      THEN [res |-> "ValueError", obj |-> None]
      ELSE IF quantity < 0
        THEN [res |-> "ValueError", obj |-> None]
        ELSE [res |-> "ok",
              obj |-> [name |-> strip(name), price |-> price,
                       quantity |-> quantity]]

\* as Product_update_quantity, without the check of the new quantity
Product_update_quantity_unchecked(self, new_quantity) ==
  [res |-> "ok", obj |-> [self EXCEPT !.quantity = new_quantity]]

Product_update_quantity(self, new_quantity) ==
  IF new_quantity < 0
    THEN [res |-> "ValueError", obj |-> self]
    ELSE [res |-> "ok", obj |-> [self EXCEPT !.quantity = new_quantity]]

get_product_info(self) ==
  [name |-> self.name, price |-> self.price, quantity |-> self.quantity,
   total_value |-> float_mul(self.price, self.quantity)]

NewProduct(n, p, q) ==
  /\ \E r \in {Product(n, p, q)} :
       /\ product_obj' = IF r.res = "ok" THEN r.obj ELSE product_obj
       /\ last' = Call("Product", r.res, None)
  /\ UNCHANGED <<sessions, opened>>
  /\ UNCHANGED <<products, pc, pending, stale, users, managers,
                 session_state, clock>>

ProductUpdateQuantity(q) ==
  /\ product_obj # None
  /\ \E r \in {Product_update_quantity(product_obj, q)} :
       /\ product_obj' = r.obj
       /\ last' = Call("Product.update_quantity", r.res, None)
  /\ UNCHANGED <<sessions, opened>>
  /\ UNCHANGED <<products, pc, pending, stale, users, managers,
                 session_state, clock>>

ProductGetInfo ==
  /\ product_obj # None
  /\ last' = Call("get_product_info", "ok", get_product_info(product_obj))
  /\ UNCHANGED <<sessions, opened>>
  /\ UNCHANGED <<products, pc, pending, stale, users, managers, product_obj,
                 session_state, clock>>

NextProduct ==
  \/ \E n \in RawNames, p \in ProductPrices, q \in ProductQuantities :
       NewProduct(n, p, q)
  \/ \E q \in ProductQuantities : ProductUpdateQuantity(q)
  \/ ProductGetInfo

SpecProduct == Init /\ [][NextProduct]_vars

\* ------------------------------------------------- the browser session
\* the three products init_session_state adds; a name is written as one
\* character that is not whitespace, a price in cents
SeedProducts ==
  << [name |-> <<"Laptop">>, price |-> 99999, quantity |-> 5],
     [name |-> <<"Mouse">>, price |-> 2999, quantity |-> 20],
     [name |-> <<"Keyboard">>, price |-> 5999, quantity |-> 15] >>

\* the three add_product calls inside try ... except ValueError: pass
RECURSIVE seed_products(_, _)
seed_products(tbl, seeds) ==
  IF seeds = <<>>
    THEN tbl
    ELSE LET a == add_product(tbl, Head(seeds).name, Head(seeds).price,
                              Head(seeds).quantity)
         IN IF a.res # "ok" THEN tbl
            ELSE seed_products(a.tbl, Tail(seeds))

\* as deque_appendleft, on a deque made without maxlen
deque_appendleft_unbounded(q, maxlen, x) == <<x>> \o q

\* deque(maxlen=maxlen).appendleft(x): a full deque discards the item at
\* the other end
deque_appendleft(q, maxlen, x) ==
  IF Len(q) = maxlen
    THEN <<x>> \o SubSeq(q, 1, maxlen - 1)
    ELSE <<x>> \o q

add_notification(ss, message, notification_type, now) ==
  [ss EXCEPT !.notifications =
     deque_appendleft(@, MAX_NOTIFICATIONS,
       [message |-> message, type |-> notification_type, timestamp |-> now,
        user |-> IF ss.current_user # None THEN ss.current_user.username
                 ELSE "System"])]

\* the first run of the script in a browser session: init_session_state
\* finds none of its keys in st.session_state
InitSessionState(salt) ==
  /\ ~session_state.started
  /\ managers < MaxManagers
  /\ products' = seed_products(products, SeedProducts)
  /\ users' = UserManager_init(users, salt).tbl
  /\ managers' = managers + 1
  /\ session_state' =
       [started |-> TRUE, current_user |-> None, notifications |-> <<>>]
  /\ last' = Call("init_session_state", "ok", None)
  /\ WithDb("ok")
  /\ UNCHANGED <<pc, pending, stale, product_obj, clock>>

\* add_notification on its own; value: the number of entries the queue held
AddNotification(message, notification_type) ==
  /\ session_state.started
  /\ session_state' =
       add_notification(session_state, message, notification_type, clock)
  /\ last' = Call("add_notification", "ok", Len(session_state.notifications))
  /\ UNCHANGED <<products, pc, pending, stale, users, managers, product_obj,
                 sessions, opened, clock>>

\* a second passes
Tick ==
  /\ clock < MaxClock
  /\ clock' = clock + 1
  /\ UNCHANGED <<products, last, pc, pending, stale, users, managers,
                 product_obj, sessions, opened, session_state>>

NextNotify ==
  \/ \E salt \in Salts : InitSessionState(salt)
  \/ AddNotification("m", "info")
  \/ Tick

SpecNotify == Init /\ [][NextNotify]_vars

\* ------------------------------------------------------ the pages
\* Every action is one run of the script main(): init_session_state, then
\* login_page or inventory_page with the one form or button the user used.
\* What the run only displays is left out.
AppUsernames == {"admin", "u1"}
AppPasswords == {"admin123", "p1"}
AppNames == { <<"a">>, <<"Laptop">> }

IsAdmin(user) == user # None /\ user.role = "UserRole.ADMIN"

\* the queue has room within the bound of the model
Room == Len(session_state.notifications) < MaxNotes

\* the browser session ends: the next run starts on an empty
\* st.session_state
EndSession ==
  /\ session_state.started
  /\ session_state' = NoSession
  /\ last' = Call("end_session", "ok", None)
  /\ NoDb
  /\ UNCHANGED <<products, pc, pending, stale, users, managers, product_obj,
                 clock>>

\* login_page, form "login"
Login(username, password) ==
  /\ session_state.started
  /\ session_state.current_user = None
  /\ Room
  /\ \E user \in {authenticate_user(users, username, password)} :
       /\ last' = Call("authenticate_user", "ok", user)
       /\ session_state' =
            IF user # None
              THEN add_notification(
                     [session_state EXCEPT !.current_user = user],
                     <<"logged in", username>>, "success", clock)
              ELSE session_state
  /\ WithDb("ok")
  /\ UNCHANGED <<products, pc, pending, stale, users, managers, product_obj,
                 clock>>

\* login_page, form "register"
Register(username, password, role, salt) ==
  /\ session_state.started
  /\ session_state.current_user = None
  /\ \E r \in {register_user(users, username, password, role, salt)} :
       /\ Len(r.tbl) <= MaxUsers
       /\ users' = r.tbl
       /\ last' = Call("register_user", r.res, None)
       /\ WithDb(r.res)
  /\ UNCHANGED <<products, pc, pending, stale, managers, product_obj,
                 session_state, clock>>

\* inventory_page, button "Logout"
Logout ==
  /\ session_state.started
  /\ session_state.current_user # None
  /\ Room
  /\ session_state' =
       [add_notification(session_state,
          <<"logged out", session_state.current_user.username>>, "info",
          clock)
        EXCEPT !.current_user = None]
  /\ last' = Call("logout", "ok", None)
  /\ NoDb
  /\ UNCHANGED <<products, pc, pending, stale, users, managers, product_obj,
                 clock>>

\* inventory_page, form "add_product_form", shown to an administrator
PageAddProduct(n, p, q) ==
  /\ session_state.started
  /\ IsAdmin(session_state.current_user)
  /\ Room
  /\ \E r \in {add_product(products, n, p, q)} :
       /\ Len(r.tbl) <= Len(SeedProducts) + 1
       /\ products' = r.tbl
       /\ last' = Call("add_product", r.res, None)
       /\ session_state' =
            IF r.res = "ValueError"
              THEN add_notification(session_state,
                     <<"Failed to add product", n>>, "error", clock)
              ELSE add_notification(session_state,
                     <<"Added new product", n>>, "success", clock)
       /\ WithDb(r.res)
  /\ UNCHANGED <<pc, pending, stale, users, managers, product_obj, clock>>

\* inventory_page, button "Update" of the i-th product shown, for an
\* administrator
PageUpdateQuantity(i, q) ==
  /\ session_state.started
  /\ IsAdmin(session_state.current_user)
  /\ Room
  /\ i \in 1..Len(products)
  /\ \E r \in {update_quantity(products, products[i].name, q)} :
       /\ products' = r.tbl
       /\ last' = Call("update_quantity", r.res, None)
       /\ session_state' =
            add_notification(session_state,
              <<"Updated", products[i].name, products[i].quantity, q>>,
              "success", clock)
       /\ WithDb(r.res)
  /\ UNCHANGED <<pc, pending, stale, users, managers, product_obj, clock>>

\* inventory_page, button "Remove" of the i-th product shown, for an
\* administrator
PageRemoveProduct(i) ==
  /\ session_state.started
  /\ IsAdmin(session_state.current_user)
  /\ Room
  /\ i \in 1..Len(products)
  /\ \E r \in {remove_product(products, products[i].name)} :
       /\ products' = r.tbl
       /\ last' = Call("remove_product", r.res, None)
       /\ session_state' =
            add_notification(session_state,
              <<"Removed product", products[i].name>>, "success", clock)
       /\ WithDb(r.res)
  /\ UNCHANGED <<pc, pending, stale, users, managers, product_obj, clock>>

\* inventory_page without a button: the inventory is shown
PageView ==
  /\ session_state.started
  /\ session_state.current_user # None
  /\ last' = Call("get_all_products", "ok", get_all_products(products))
  /\ WithDb("ok")
  /\ UNCHANGED <<products, pc, pending, stale, users, managers, product_obj,
                 session_state, clock>>

NextApp ==
  \/ InitSessionState("s1")
  \/ EndSession
  \/ \E u \in AppUsernames, pw \in AppPasswords : Login(u, pw)
  \/ \E u \in AppUsernames, pw \in AppPasswords, role \in UserRoles :
       Register(u, pw, role, "s1")
  \/ Logout
  \/ \E n \in AppNames : PageAddProduct(n, MaxPrice, MaxQty)
  \/ \E i \in 1..(Len(SeedProducts) + 1) : PageUpdateQuantity(i, 0)
  \/ \E i \in 1..(Len(SeedProducts) + 1) : PageRemoveProduct(i)
  \/ PageView

SpecApp == Init /\ [][NextApp]_vars

\* ------------------------------------------------------------ properties
\* t is s without its leading and trailing whitespace
IsTrimOf(t, s) ==
  \E i \in 1..(Len(s) + 1), j \in 0..Len(s) :
    /\ t = SubSeq(s, i, j)
    /\ \A k \in 1..(i - 1) : s[k] \in Whitespace
    /\ \A k \in (j + 1)..Len(s) : s[k] \in Whitespace
    /\ t # <<>> => (t[1] \notin Whitespace /\ t[Len(t)] \notin Whitespace)

\* a row of tbl carries the trimmed form of name n
Stored(tbl, n) == \E i \in 1..Len(tbl) : IsTrimOf(tbl[i].name, n)

Valid(n, p, q) == ~IsTrimOf(<<>>, n) /\ p >= 0 /\ q >= 0

\* C1: add_product with a name that is empty after trimming, a negative
\* price or a negative quantity fails with ValueError and stores nothing.
C1_InvalidAddRejected ==
  [][last'.op = "add_product" =>
       \A n \in RawNames, p \in Prices, q \in Quantities :
         (AddProduct(n, p, q) /\ ~Valid(n, p, q))
           => (last'.res = "ValueError" /\ products' = products)]_vars

\* C2: every stored product has price >= 0 and quantity >= 0.
C2_NonNegative ==
  \A i \in 1..Len(products) :
    products[i].price >= 0 /\ products[i].quantity >= 0

\* C3: no two stored products share a name, also when two add_product
\* calls for the same trimmed name both pass the existence check before
\* either commits.
C3_UniqueNames ==
  \A i, j \in 1..Len(products) :
    i # j => products[i].name # products[j].name

\* two callers passed the check for one name; one committed, the other's
\* commit was refused
C3_Witness ==
  /\ last.op = "add_product"
  /\ last.res = "IntegrityError"
  /\ Len(products) >= 1

\* C4: in every reachable catalog, add_product of a valid (name, price,
\* quantity) whose trimmed name is not stored succeeds, and
\* retrieve_product_info(name) then returns the trimmed name with exactly
\* that price and quantity.
C4_AddThenGet ==
  \A n \in RawNames :
    ~Stored(products, n) =>
      \A p \in Prices, q \in Quantities :
        Valid(n, p, q) =>
          LET added == add_product(products, n, p, q)
              got == retrieve_product_info(added.tbl, n)
          IN /\ added.res = "ok"
             /\ got # None
             /\ IsTrimOf(got.name, n)
             /\ got.price = p
             /\ got.quantity = q

\* an add succeeded and the record is found under the padded name
C4_Witness ==
  /\ last.op = "add_product"
  /\ last.res = "ok"
  /\ retrieve_product_info(products, <<" ", "a", " ">>) # None
  /\ retrieve_product_info(products, <<" ", "a", " ">>).name = <<"a">>

\* C5: in every reachable catalog, add_product with a name whose trimmed
\* form is already stored fails with ValueError whatever the price and
\* quantity, and leaves the stored records as they were.
C5_DuplicateAddRejected ==
  \A n \in RawNames :
    Stored(products, n) =>
      \A p \in Prices, q \in Quantities :
        LET added == add_product(products, n, p, q)
        IN added.res = "ValueError" /\ added.tbl = products

C5_Witness ==
  /\ last.op = "add_product"
  /\ last.res = "ValueError"
  /\ Stored(products, <<" ", "a", " ">>)

\* C6: remove_product of a name that is not stored fails with KeyError and
\* changes nothing; a successful remove_product(name) makes
\* retrieve_product_info(name) return None, and a name that is absent stays
\* absent until a call adds it.
C6_RemoveThenAbsent ==
  [][/\ last'.op = "remove_product" =>
          \A n \in RawNames :
            RemoveProduct(n) =>
              IF Stored(products, n)
                THEN /\ last'.res = "ok"
                     /\ retrieve_product_info(products', n) = None
                ELSE last'.res = "KeyError" /\ products' = products
     /\ (/\ products' # products
         /\ last'.op \notin {"add_product", "sync_inventory"}) =>
          \A n \in RawNames :
            retrieve_product_info(products, n) = None
              => retrieve_product_info(products', n) = None]_vars

\* a record was removed while another record stays
C6_Witness ==
  /\ last.op = "remove_product"
  /\ last.res = "ok"
  /\ Len(products) >= 1

\* C7: in every reachable catalog, update_quantity with a negative quantity
\* fails with ValueError and leaves every stored quantity as it was.
C7_NegativeUpdateRejected ==
  \A n \in RawNames, q \in Quantities :
    q < 0 =>
      LET updated == update_quantity(products, n, q)
      IN updated.res = "ValueError" /\ updated.tbl = products

C7_Witness ==
  /\ last.op = "update_quantity"
  /\ last.res = "ValueError"
  /\ Len(products) >= 1

\* C8: in every reachable catalog, update_quantity(name, q) with q >= 0
\* fails with KeyError and creates nothing when the name is not stored; when
\* it is stored, retrieve_product_info(name) afterwards reports quantity q.
C8_UpdateQuantity ==
  \A n \in RawNames, q \in Quantities :
    q >= 0 =>
      LET updated == update_quantity(products, n, q)
          got == retrieve_product_info(updated.tbl, n)
      IN IF Stored(products, n)
           THEN updated.res = "ok" /\ got # None /\ got.quantity = q
           ELSE updated.res = "KeyError" /\ updated.tbl = products

C8_Witness ==
  /\ last.op = "update_quantity"
  /\ last.res = "ok"
  /\ \E i \in 1..Len(products) : products[i].quantity = MaxQty

\* the sum of total_value over the stored names, one lookup per name
RECURSIVE SumOverNames(_, _)
SumOverNames(tbl, names) ==
  IF names = {} THEN 0
  ELSE LET n == CHOOSE x \in names : TRUE
       IN retrieve_product_info(tbl, n).total_value
            + SumOverNames(tbl, names \ {n})

StoredNames(tbl) == {tbl[i].name : i \in 1..Len(tbl)}

\* C9: get_total_inventory_value returns the sum of price x quantity over
\* exactly the stored records, and 0 for an empty catalog.
C9_TotalValue ==
  /\ get_total_inventory_value(products)
       = SumOverNames(products, StoredNames(products))
  /\ products = <<>> => get_total_inventory_value(products) = 0
  /\ last.op = "get_total_inventory_value"
       => last.value = SumOverNames(products, StoredNames(products))

C9_Witness ==
  /\ last.op = "get_total_inventory_value"
  /\ Len(products) = 2
  /\ products[1].price * products[1].quantity > 0
  /\ products[2].price * products[2].quantity > 0

\* C10: each add_product that adds a product constructs a Product exactly
\* once, with the name, price and quantity it was given.
C10_ProductConstructedOnce ==
  [][(last'.op = "add_product" /\ last'.res = "ok") =>
       \A n \in RawNames, p \in Prices, q \in Quantities :
         AddProduct(n, p, q)
           => last'.calls
                = <<[name |-> n, price |-> p, quantity |-> q]>>]_vars

\* the password a stored hash was generated from
PasswordOf(pwhash) == pwhash.digest[2]

\* C11: after register_user(u, pw, role) succeeds, authenticate_user(u, pw)
\* returns a user of that username and role, and authenticate_user(u, pw2)
\* returns None for every other password pw2.
C11_RegisterThenAuthenticate ==
  \A u \in Usernames, pw \in Passwords, role \in UserRoles, salt \in Salts :
    LET r == register_user(users, u, pw, role, salt)
        got == authenticate_user(r.tbl, u, pw)
    IN r.res = "ok" =>
         /\ got # None
         /\ got.username = u
         /\ got.role = role
         /\ \A pw2 \in Passwords \ {pw} :
              authenticate_user(r.tbl, u, pw2) = None

\* a registered user has authenticated
C11_Witness ==
  /\ last.op = "authenticate_user"
  /\ last.value # None
  /\ last.value.username = "u1"
  /\ last.value.role = "UserRole.PARTNER"

\* C12: authenticate_user returns a user only if the username exists, the
\* stored account is active and the password matches the stored hash.
C12_AuthenticateOnlyActive ==
  (last.op = "authenticate_user" /\ last.value # None) =>
    \E i \in 1..Len(users) :
      /\ users[i].username = last.value.username
      /\ users[i].is_active # 0
      /\ users[i].password_hash = last.value.password_hash

\* C13: register_user with an existing username fails with ValueError,
\* whatever the password and role, and leaves the account as it is: the
\* original password authenticates, the new one does not.
C13_DuplicateRegisterRejected ==
  \A u \in Usernames :
    query_user(users, u) # 0 =>
      \A pw \in Passwords, role \in UserRoles, salt \in Salts :
        LET r == register_user(users, u, pw, role, salt)
            orig == PasswordOf(users[query_user(users, u)].password_hash)
        IN /\ r.res = "ValueError"
           /\ r.tbl = users
           /\ authenticate_user(r.tbl, u, orig) # None
           /\ pw # orig => authenticate_user(r.tbl, u, pw) = None

C13_Witness ==
  /\ last.op = "register_user"
  /\ last.res = "ValueError"
  /\ Len(users) >= 2

AdminRows(tbl) == {i \in 1..Len(tbl) : tbl[i].username = "admin"}

\* C14: once UserManager has been initialised on an empty directory, there
\* is exactly one account admin, an active administrator; before any
\* registration it is the only account; initialising again succeeds and
\* leaves the admin account as it is.
C14_OneAdmin ==
  [][/\ managers' >= 1 =>
          /\ Cardinality(AdminRows(users')) = 1
          /\ get_user(users', "admin").role = "UserRole.ADMIN"
          /\ get_user(users', "admin").is_active = TRUE
          /\ (\A i \in 1..Len(users') : users'[i].username = "admin")
               => Len(users') = 1
     /\ last'.op = "UserManager" =>
          /\ last'.res = "ok"
          /\ users # <<>> => users' = users]_vars

\* UserManager was initialised a second time
C14_Witness ==
  /\ last.op = "UserManager"
  /\ managers = 2
  /\ Len(users) = 1

\* C15: the directory is append-only: every account stays where it is with
\* the same password hash, role and is_active, and every account is active.
C15_AppendOnly ==
  [][/\ Len(users') >= Len(users)
     /\ \A i \in 1..Len(users) : users'[i] = users[i]
     /\ \A i \in 1..Len(users') : users'[i].is_active = 1]_vars

C15_Witness ==
  /\ last.op = "get_all_users"
  /\ Len(users) = 2
  /\ managers = 2

\* the directory without the account of username u
Without(tbl, u) == SelectSeq(tbl, LAMBDA row : row.username # u)

\* C16: with a password that is not the account's, authenticate_user
\* returns None both in a directory where username u is registered and in
\* the same directory without u.
C16_NoAccountLeak ==
  \A u \in Usernames, pw \in Passwords :
    LET i == query_user(users, u)
    IN (i = 0 \/ PasswordOf(users[i].password_hash) # pw) =>
         /\ authenticate_user(users, u, pw) = None
         /\ authenticate_user(Without(users, u), u, pw) = None

\* a failed login while an account beside admin exists
C16_Witness ==
  /\ last.op = "authenticate_user"
  /\ last.value = None
  /\ query_user(users, "u1") # 0

\* C17: if either fetch fails, sync_inventory fails with ConnectionError
\* and the catalog is exactly as before, whatever the remote side holds.
C17_FetchFailureLeavesCatalog ==
  \A fq \in BOOLEAN, fc \in BOOLEAN :
    (fq \/ fc) =>
      \A data \in RemoteLists, cmap \in CatalogMaps :
        LET r == sync_inventory(products, fq, fc, data, cmap)
        IN r.res = "ConnectionError" /\ r.tbl = products

\* a sync failed on a catalog that holds records
C17_Witness ==
  /\ last.op = "sync_inventory"
  /\ last.res = "ConnectionError"
  /\ Len(products) >= 1

\* the trimmed form of s
TrimOf(s) ==
  CHOOSE t \in {SubSeq(s, i, j) : i \in 1..(Len(s) + 1), j \in 0..Len(s)} :
    IsTrimOf(t, s)

\* the stored name of remote item k
ItemName(data, cmap, k) == TrimOf(catalog_name(cmap, data[k].id))

\* the remote items of the same name as item k
SameName(data, cmap, k) ==
  {j \in 1..Len(data) : ItemName(data, cmap, j) = ItemName(data, cmap, k)}

FirstOf(S) == CHOOSE i \in S : \A j \in S : i <= j

LastOf(S) == CHOOSE i \in S : \A j \in S : j <= i

\* item k of the remote list is applied in tbl, a catalog that was old
\* before the run
Applied(old, tbl, data, cmap, k) ==
  LET nm == ItemName(data, cmap, k)
      same == SameName(data, cmap, k)
      got == retrieve_product_info(tbl, nm)
      was == retrieve_product_info(old, nm)
  IN /\ got # None
     /\ got.quantity = data[LastOf(same)].quantity
     /\ got.price = IF was # None THEN was.price
                    ELSE data[FirstOf(same)].price

\* item k has a negative quantity and a name that is stored when the run
\* reaches it
Refused(old, data, cmap, k) ==
  /\ data[k].quantity < 0
  /\ \/ retrieve_product_info(old, ItemName(data, cmap, k)) # None
     \/ \E j \in SameName(data, cmap, k) : j < k

C19_ProductValidated ==
  /\ \A n \in RawNames, p \in ProductPrices, q \in ProductQuantities :
       ((\A i \in 1..Len(n) : n[i] \in Whitespace)
          \/ (~p.nan /\ p.v < 0) \/ q < 0)
         => Product(n, p, q).res = "ValueError"
  /\ (last.op = "Product" /\ last.res = "ok") => product_obj # None
  /\ product_obj # None =>
       /\ \A q \in ProductQuantities :
            q < 0 => Product_update_quantity(product_obj, q)
                       = [res |-> "ValueError", obj |-> product_obj]
       /\ product_obj.quantity >= 0
       /\ ~product_obj.price.nan => product_obj.price.v >= 0

\* update_quantity refused a negative value on a product that has stock
C19_Witness ==
  /\ last.op = "Product.update_quantity"
  /\ last.res = "ValueError"
  /\ product_obj.quantity = MaxQty

\* the step is the whole write that caller p had begun
WholeWrite(p) ==
  /\ pc[p] # "idle"
  /\ pc'[p] = "idle"
  /\ \/ /\ pc[p] = "commit"
        /\ products' = Append(products,
             DBProduct(TrimOf(pending[p].name), pending[p].price,
                       pending[p].quantity))
     \/ /\ pc[p] = "update"
        /\ Len(products') = Len(products)
        /\ \E i \in 1..Len(products) :
             /\ products[i].name = pending[p].name
             /\ products'[i] =
                  DBProduct(products[i].name, products[i].price,
                            pending[p].quantity)
             /\ \A j \in 1..Len(products) : j # i => products'[j] = products[j]
     \/ /\ pc[p] = "delete"
        /\ \E i \in 1..Len(products) :
             /\ products[i].name = pending[p].name
             /\ Len(products') = Len(products) - 1
             /\ \A j \in 1..Len(products') :
                  products'[j] = IF j < i THEN products[j]
                                 ELSE products[j + 1]

\* what a reader returned is read off the stored catalog in one piece
WholeRead ==
  /\ products' = products
  /\ last'.op = "retrieve_product_info" =>
       \/ last'.value = None
       \/ \E i \in 1..Len(products) :
            last'.value = [name |-> products[i].name,
                           price |-> products[i].price,
                           quantity |-> products[i].quantity,
                           total_value |->
                             products[i].price * products[i].quantity]
  /\ last'.op = "get_all_products" =>
       /\ Len(last'.value) = Len(products)
       /\ \A i \in 1..Len(products) :
            /\ last'.value[i].name = products[i].name
            /\ last'.value[i].price = products[i].price
            /\ last'.value[i].quantity = products[i].quantity
  /\ last'.op = "get_total_inventory_value" =>
       last'.value = SumOverNames(products, StoredNames(products))

\* C20: every step leaves the stored catalog as it is or applies one whole
\* write (a complete record appended, one record deleted, one record's
\* quantity replaced) at the writer's commit; a reader that runs while
\* writers are between their steps returns what the stored catalog holds
\* before or after those writes, never a part of a record.
C20_SingleCommitStep ==
  [][ /\ products' # products => \E p \in Procs : WholeWrite(p)
      /\ last'.op \in {"retrieve_product_info", "get_all_products",
                       "get_total_inventory_value"} => WholeRead ]_vars

\* a reader returned the stored record while a writer that will change its
\* quantity is between query and commit
C20_Witness ==
  /\ last.op = "retrieve_product_info"
  /\ last.value # None
  /\ \E p \in Procs :
       /\ pc[p] = "update"
       /\ pending[p].name = last.value.name
       /\ pending[p].quantity # last.value.quantity

\* C21: every open storage session belongs to a call that is between its
\* query and its commit, so a call that has returned or raised (duplicate,
\* not found, invalid argument) leaves the number of open sessions as it
\* was before; a call that raised leaves both tables as they were.
C21_SessionsReleased ==
  [][ /\ sessions' = Cardinality({p \in Procs : pc'[p] # "idle"})
      /\ last'.res # "ok" => (products' = products /\ users' = users) ]_vars

\* a call raised while another caller holds its session
C21_Witness ==
  /\ last.res \in {"KeyError", "ValueError", "IntegrityError"}
  /\ opened
  /\ sessions = 1

\* C23: update_quantity with a negative quantity for a name that is not
\* stored fails with ValueError, not KeyError, and an update_quantity that
\* ended with ValueError opened no storage session, while one that ended
\* with KeyError did.
C23_QuantityCheckedFirst ==
  /\ \A n \in RawNames, q \in Quantities :
       (q < 0 /\ ~Stored(products, n)) =>
         update_quantity(products, n, q).res = "ValueError"
  /\ last.op = "update_quantity" =>
       (opened <=> last.res # "ValueError")
  /\ sessions = 0

\* update_quantity refused a quantity on a catalog that stores no name
C23_Witness ==
  /\ last.op = "update_quantity"
  /\ last.res = "ValueError"
  /\ ~opened
  /\ products = <<>>

\* the records of tbl whose name is not nm, in their order
Others(tbl, nm) == SelectSeq(tbl, LAMBDA row : row.name # nm)

\* C24: in every reachable catalog a successful remove_product(n) or
\* update_quantity(n, q) leaves the records of every other name as they
\* were, update_quantity leaves the name and the price of record n as they
\* were, and a successful add_product leaves every existing record as it
\* was.
C24_OneRecordTouched ==
  \A n \in RawNames :
    /\ LET r == remove_product(products, n)
       IN r.res = "ok" =>
            Others(r.tbl, TrimOf(n)) = Others(products, TrimOf(n))
    /\ \A q \in Quantities :
         LET u == update_quantity(products, n, q)
         IN u.res = "ok" =>
              /\ Others(u.tbl, TrimOf(n)) = Others(products, TrimOf(n))
              /\ Len(u.tbl) = Len(products)
              /\ \A i \in 1..Len(products) :
                   /\ u.tbl[i].name = products[i].name
                   /\ u.tbl[i].price = products[i].price
    /\ \A pr \in Prices, q \in Quantities :
         LET a == add_product(products, n, pr, q)
         IN a.res = "ok" =>
              /\ Len(a.tbl) = Len(products) + 1
              /\ SubSeq(a.tbl, 1, Len(products)) = products

\* a quantity was updated in a catalog of two records with different
\* quantities
C24_Witness ==
  /\ last.op = "update_quantity"
  /\ last.res = "ok"
  /\ Len(products) = 2
  /\ products[1].quantity # products[2].quantity

\* C25: when an item of the remote list is refused (a negative quantity for
\* a name that is stored when the run reaches it), sync_inventory ends with
\* ValueError and leaves the catalog as the items before the first refused
\* one made it: they are applied, and no item from the refused one on is.
C25_NoRollback ==
  \A data \in RemoteLists, cmap \in CatalogMaps :
    LET r == sync_inventory(products, FALSE, FALSE, data, cmap)
        refused == {k \in 1..Len(data) : Refused(products, data, cmap, k)}
    IN refused # {} =>
         LET k0 == FirstOf(refused)
             before == SubSeq(data, 1, k0 - 1)
             b == sync_inventory(products, FALSE, FALSE, before, cmap)
         IN /\ r.res = "ValueError"
            /\ b.res = "ok"
            /\ r.tbl = b.tbl
            /\ \A j \in 1..(k0 - 1) :
                 Applied(products, r.tbl, before, cmap, j)
            /\ StoredNames(r.tbl) =
                 StoredNames(products)
                   \cup {ItemName(data, cmap, j) : j \in 1..(k0 - 1)}

\* a sync stopped with ValueError on a catalog of two records
C25_Witness ==
  /\ last.op = "sync_inventory"
  /\ last.res = "ValueError"
  /\ Len(products) = 2
  /\ \E i \in 1..2 : products[i].quantity < 0

\* C26: the notification queue never holds more than MAX_NOTIFICATIONS
\* entries and is ordered newest first: add_notification puts the new entry
\* at the front, keeps the entries it found in their order, and drops the
\* entry at the back, and no other, when the queue was full.
C26_NotificationQueue ==
  [][ (/\ session_state.started
       /\ session_state'.notifications # session_state.notifications) =>
        LET q == session_state.notifications
            qn == session_state'.notifications
        IN /\ Len(qn) <= MAX_NOTIFICATIONS
           /\ qn[1].timestamp = clock
           /\ Tail(qn) = IF Len(q) = MAX_NOTIFICATIONS
                           THEN SubSeq(q, 1, MAX_NOTIFICATIONS - 1)
                           ELSE q
           /\ \A i \in 1..Len(qn), j \in 1..Len(qn) :
                i < j => qn[i].timestamp >= qn[j].timestamp ]_vars

\* an entry was added to a full queue whose back entry was older than the
\* new one
C26_Witness ==
  /\ last.op = "add_notification"
  /\ last.value = MAX_NOTIFICATIONS
  /\ Len(session_state.notifications) = MAX_NOTIFICATIONS
  /\ session_state.notifications[1].timestamp = MaxClock
  /\ session_state.notifications[MAX_NOTIFICATIONS].timestamp = 0

\* C22: an add, a quantity update or a remove reaches the catalog only
\* while current_user is set and has role administrator; current_user
\* becomes set only through a successful authenticate_user, and logout
\* resets it.
C22_AdminOnlyMutation ==
  [][ /\ products' # products => IsAdmin(session_state.current_user)
      /\ (session_state.current_user = None
            /\ session_state'.current_user # None) =>
           /\ last'.op = "authenticate_user"
           /\ last'.value = session_state'.current_user
      /\ (last'.op = "logout" /\ session_state.current_user # None) =>
           session_state'.current_user = None ]_vars
====
